---- MODULE Spec2Model ----
(***************************************************************************)
(* State-machine model of backend/app.py (NAS Stream MVP): the media       *)
(* scanner (scan_files, FILES, SCAN_STATUS) and the transcode session      *)
(* manager (ensure_hls_running, stop_stream, PROCS, PROCS_LOCK).           *)
(***************************************************************************)
EXTENDS Integers, Sequences, FiniteSets, TLC

(***************************************************************************)
(* Bounds of the model.                                                    *)
(***************************************************************************)
NumThreads == 2        \* request-handling threads of the server
MaxProcs == 2          \* encoder processes spawned in one run of the model
MaxCalls == 3          \* requests the server receives in one run of the model
MaxTree == 4           \* paths under MEDIA_ROOT when the tree is drawn freely

Threads == 1..NumThreads
Pids == 1..MaxProcs

(***************************************************************************)
(* The media tree under MEDIA_ROOT, in the order rglob("*") yields it.     *)
(***************************************************************************)
MEDIA_ROOT == "/media"

Walk == << "/media/tv", "/media/Movie.MP4", "/media/notes.txt", "/media/tv/clip.mkv" >>

Paths == { Walk[k] : k \in 1..Len(Walk) }

\* two more files that may lie under MEDIA_ROOT: one whose name differs from
\* Movie.MP4 only in case, and one whose identifier collides with Movie.MP4's
Others == { "/media/movie.mp4", "/media/MOVIE.mp4" }

AllPaths == Paths \cup Others

\* the trees rglob("*") can yield: no path twice, a directory before its content
Trees ==
    { s \in UNION { [1..n -> AllPaths] : n \in 0..MaxTree } :
        /\ \A j, k \in 1..Len(s) : s[j] = s[k] => j = k
        /\ \A k \in 1..Len(s) :
             s[k] = "/media/tv/clip.mkv" => \E j \in 1..(k - 1) : s[j] = "/media/tv" }

\* identifiers a client may ask for: the two a scan of Walk produces and one
\* that no scan produces
ReqIds == { "a", "x" }

VARIABLES
    FILES,        \* the process-wide index: records in dict order
    SCAN_STATUS,  \* the process-wide scan progress record
    phase,        \* "startup" (the startup scan runs alone), "serving", "exited"
    it,           \* per thread: how far its rglob iterator has advanced in Walk
    cnt,          \* per thread: the local counters of scan_files
    found,        \* per thread: the local accumulation dict of scan_files
    info,         \* per thread: the codec of the local probe result
    pubComplete,  \* history: FILES was last assigned by a scan whose traversal had ended
    exists,       \* filesystem: which of MEDIA_ROOT and the paths under it exist
    PROCS,        \* session table: identifier -> pid of the Popen handle, 0 = no entry
    PROCS_LOCK,   \* holder of the table lock, 0 = free
    procs,        \* every encoder ever spawned: pid -> [id, st]
    nprocs,       \* number of encoders spawned so far
    dir,          \* HLS_ROOT/<id> exists
    playlist,     \* HLS_ROOT/<id>/index.m3u8: "absent", "fresh" (age < 10 s), "stale"
    pc,           \* position of each request thread
    op,           \* the handler the thread runs or last ran
    fid,          \* its file_id argument
    res,          \* value the last call returned or the error it raised
    how,          \* the return statement the last call left through
    proc,         \* the local variable proc / p of the running call
    stopSeen,     \* history: a stop_stream call for the identifier has begun
    calls,        \* number of requests received so far
    tree          \* the paths MEDIA_ROOT.rglob("*") yields, in its order

sessVars == << PROCS, PROCS_LOCK, procs, nprocs, dir, playlist, pc, op, fid,
               res, how, proc, stopSeen >>
sessOnly == << PROCS, PROCS_LOCK, procs, nprocs, dir, playlist, fid, proc, stopSeen >>
scanVars == << FILES, SCAN_STATUS, phase, it, cnt, found, info, pubComplete >>
vars == << scanVars, exists, sessVars, calls, tree >>

(***************************************************************************)
(* Index helpers (FILES is a dict: a sequence of records with unique id).  *)
(***************************************************************************)
InIndex(files, i) == \E k \in 1..Len(files) : files[k].id = i

PathOf(files, i) == (CHOOSE k \in 1..Len(files) : files[k].id = i)

(***************************************************************************)
(* Pure parts of the scanner: path attributes, str.lower(), string order,  *)
(* the stable identifier, the dict `found` and the final sort.             *)
(***************************************************************************)
None == "<None>"       \* Python's None

SCAN_EXTS == { ".mkv", ".mp4", ".webm", ".mov", ".avi", ".m4v" }

\* Path.is_file() of a path that exists
Kind(p) == IF p = "/media/tv" THEN "dir" ELSE "file"

\* Path.name
Name(p) ==
    CASE p = "/media/tv"          -> "tv"
      [] p = "/media/Movie.MP4"   -> "Movie.MP4"
      [] p = "/media/notes.txt"   -> "notes.txt"
      [] p = "/media/tv/clip.mkv" -> "clip.mkv"
      [] p = "/media/movie.mp4"   -> "movie.mp4"
      [] p = "/media/MOVIE.mp4"   -> "MOVIE.mp4"

\* Path.suffix
Suffix(p) ==
    CASE p = "/media/tv"          -> ""
      [] p = "/media/Movie.MP4"   -> ".MP4"
      [] p = "/media/notes.txt"   -> ".txt"
      [] p = "/media/tv/clip.mkv" -> ".mkv"
      [] p = "/media/movie.mp4"   -> ".mp4"
      [] p = "/media/MOVIE.mp4"   -> ".mp4"

\* str.lower() on the strings of the tree
Lower(str) ==
    CASE str = "Movie.MP4" -> "movie.mp4"
      [] str = "MOVIE.mp4" -> "movie.mp4"
      [] str = ".MP4"      -> ".mp4"
      [] OTHER             -> str

\* the strings that occur in sort keys, in code-point order
StrOrder == << "", "clip.mkv", "h264", "movie.mp4", "unknown" >>

Rank(str) == CHOOSE k \in 1..Len(StrOrder) : StrOrder[k] = str

StrLess(x, y) == Rank(x) < Rank(y)

\* stable_id_for_path: md5 of "path|size|mtime", first 12 hex digits
StableId(p) ==
    CASE p = "/media/Movie.MP4"   -> "a"
      [] p = "/media/tv/clip.mkv" -> "b"
      [] p = "/media/movie.mp4"   -> "c"
      [] p = "/media/MOVIE.mp4"   -> "a"
      [] OTHER                    -> "n"

\* s.get("codec_name") of the first video stream ffprobe reports for the file;
\* the stream of clip.mkv carries no codec_name
CodecName(p) == IF p = "/media/tv/clip.mkv" THEN None ELSE "h264"

\* the files on which ffprobe can fail: clip.mkv is the damaged file of the tree
ProbeCanFail(p) == p = "/media/tv/clip.mkv"

\* the files a deletion on the share may remove while the service runs
Removable == { "/media/Movie.MP4" }

Record(p, codec) == [id |-> StableId(p), path |-> p, name |-> Name(p), codec |-> codec]

\* a dict assignment that keeps the record the key already has
DictSetKeepsFirst(d, r) ==
    IF \E k \in 1..Len(d) : d[k].id = r.id THEN d ELSE Append(d, r)

\* found[file_id] = record  (a dict keeps the position of a key it already has)
DictSet(d, r) ==
    IF \E k \in 1..Len(d) : d[k].id = r.id
      THEN [k \in 1..Len(d) |-> IF d[k].id = r.id THEN r ELSE d[k]]
      ELSE Append(d, r)

\* key=lambda kv: ((kv[1].get("codec") or ""), kv[1]["name"].lower())
SortKey(r) == << IF r.codec = None THEN "" ELSE r.codec, Lower(r.name) >>

KeyLess(k1, k2) == StrLess(k1[1], k2[1]) \/ (k1[1] = k2[1] /\ StrLess(k1[2], k2[2]))

\* a sort that puts an item before the items of equal key
InsertSortedUnstable(srt, r) ==
    LET n == Cardinality({ j \in 1..Len(srt) : KeyLess(SortKey(srt[j]), SortKey(r)) })
    IN  SubSeq(srt, 1, n) \o << r >> \o SubSeq(srt, n + 1, Len(srt))

\* sorted() is stable: an item goes after every item whose key is not greater
InsertSorted(srt, r) ==
    LET n == Cardinality({ j \in 1..Len(srt) : ~KeyLess(SortKey(r), SortKey(srt[j])) })
    IN  SubSeq(srt, 1, n) \o << r >> \o SubSeq(srt, n + 1, Len(srt))

RECURSIVE SortInto(_, _)
SortInto(srt, d) == IF d = << >> THEN srt ELSE SortInto(InsertSorted(srt, Head(d)), Tail(d))

\* dict(sorted(found.items(), key=...))
SortIndex(d) == SortInto(<< >>, d)

\* c = v.get("codec") or "unknown"
HistKey(r) == IF r.codec = None THEN "unknown" ELSE r.codec

RECURSIVE CountsFrom(_, _)
CountsFrom(files, k) ==
    IF k > Len(StrOrder) THEN << >>
    ELSE LET n == Cardinality({ j \in 1..Len(files) : HistKey(files[j]) = StrOrder[k] })
         IN  (IF n = 0 THEN << >> ELSE << << StrOrder[k], n >> >>) \o CountsFrom(files, k + 1)

\* codec_counts accumulated over FILES.values(), then sorted by codec name
CodecCounts(files) == CountsFrom(files, 1)

ZeroCounters ==
    [scanned_paths |-> 0, file_candidates |-> 0, accepted_media |-> 0,
     indexed |-> 0, ffprobe_ok |-> 0, ffprobe_failed |-> 0]

\* SCAN_STATUS as the module creates it (timestamps and media_root left out)
IdleStatus ==
    [state |-> "idle", scanned_paths |-> 0, file_candidates |-> 0, accepted_media |-> 0,
     indexed |-> 0, ffprobe_ok |-> 0, ffprobe_failed |-> 0,
     last_path |-> None, last_error |-> None, codec_counts |-> << >>]

\* the SCAN_STATUS.update({...}) that opens scan_files
ScanningStatus == [IdleStatus EXCEPT !.state = "scanning"]

(***************************************************************************)
(* Session manager helpers.                                                *)
(***************************************************************************)
NoProc == [id |-> "", st |-> "none"]

LiveStates == { "running", "termed", "killed" }

\* proc.poll() is None
Live(p) == p # 0 /\ procs[p].st \in LiveStates

\* f"/hls/{file_id}/index.m3u8"
URL(i) == << "hls", i, "index.m3u8" >>

Finish(t, r, h) ==
    /\ pc' = [pc EXCEPT ![t] = "idle"]
    /\ res' = [res EXCEPT ![t] = r]
    /\ how' = [how EXCEPT ![t] = h]

Goto(t, l) == pc' = [pc EXCEPT ![t] = l]

\* a request is handed to the first idle thread of the pool, if the run's
\* request budget is not used up
Accepts(t) ==
    /\ pc[t] = "idle"
    /\ \A u \in Threads : u < t => pc[u] # "idle"
    /\ calls < MaxCalls

(***************************************************************************)
(* POST /api/stream/{file_id}/start : start_stream -> ensure_hls_running   *)
(***************************************************************************)
StartCall(t, i) ==
    /\ Accepts(t)
    /\ Goto(t, "s_lookup")
    /\ op' = [op EXCEPT ![t] = "start"]
    /\ fid' = [fid EXCEPT ![t] = i]
    /\ res' = [res EXCEPT ![t] = "none"]
    /\ how' = [how EXCEPT ![t] = "none"]
    /\ proc' = [proc EXCEPT ![t] = 0]
    /\ UNCHANGED << scanVars, exists, PROCS, PROCS_LOCK, procs, nprocs, dir, playlist, stopSeen >>
    /\ calls' = calls + 1
    /\ UNCHANGED tree

\* if file_id not in FILES: raise HTTPException(404, "Unknown file id")
S_Lookup(t) ==
    /\ pc[t] = "s_lookup"
    /\ IF InIndex(FILES, fid[t])
         THEN Goto(t, "s_src") /\ UNCHANGED << res, how >>
         ELSE Finish(t, "UnknownID", "unknown")
    /\ UNCHANGED << scanVars, exists, PROCS, PROCS_LOCK, procs, nprocs, dir, playlist,
                    op, fid, proc, stopSeen >>
    /\ UNCHANGED << calls, tree >>

\* S_Src without the check that the source file still exists
S_SrcNoCheck(t) ==
    /\ pc[t] = "s_src"
    /\ IF ~InIndex(FILES, fid[t])
         THEN Finish(t, "KeyError", "keyerror")
         ELSE Goto(t, "s_mkdir") /\ UNCHANGED << res, how >>
    /\ UNCHANGED << scanVars, exists, PROCS, PROCS_LOCK, procs, nprocs, dir, playlist,
                    op, fid, proc, stopSeen >>
    /\ UNCHANGED << calls, tree >>

\* src = Path(FILES[file_id]["path"]); if not src.exists(): raise 404
S_Src(t) ==
    /\ pc[t] = "s_src"
    /\ IF ~InIndex(FILES, fid[t])
         THEN Finish(t, "KeyError", "keyerror")
         ELSE IF exists[FILES[PathOf(FILES, fid[t])].path]
                THEN Goto(t, "s_mkdir") /\ UNCHANGED << res, how >>
                ELSE Finish(t, "SourceMissing", "missing")
    /\ UNCHANGED << scanVars, exists, PROCS, PROCS_LOCK, procs, nprocs, dir, playlist,
                    op, fid, proc, stopSeen >>
    /\ UNCHANGED << calls, tree >>

\* out_dir.mkdir(parents=True, exist_ok=True)
S_Mkdir(t) ==
    /\ pc[t] = "s_mkdir"
    /\ dir' = [dir EXCEPT ![fid[t]] = TRUE]
    /\ Goto(t, "s_exists")
    /\ UNCHANGED << scanVars, exists, PROCS, PROCS_LOCK, procs, nprocs, playlist,
                    op, fid, res, how, proc, stopSeen >>
    /\ UNCHANGED << calls, tree >>

\* if playlist.exists():
S_Exists(t) ==
    /\ pc[t] = "s_exists"
    /\ IF playlist[fid[t]] # "absent" THEN Goto(t, "s_age") ELSE Goto(t, "s_lock")
    /\ UNCHANGED << scanVars, exists, PROCS, PROCS_LOCK, procs, nprocs, dir, playlist,
                    op, fid, res, how, proc, stopSeen >>
    /\ UNCHANGED << calls, tree >>

\* S_Age with the freshness test never true: a fresh playlist goes on to the lock
S_AgeNoReuse(t) ==
    /\ pc[t] = "s_age"
    /\ IF playlist[fid[t]] = "absent"
         THEN Finish(t, "FileNotFoundError", "staterror")
         ELSE Goto(t, "s_lock") /\ UNCHANGED << res, how >>
    /\ UNCHANGED << scanVars, exists, PROCS, PROCS_LOCK, procs, nprocs, dir, playlist,
                    op, fid, proc, stopSeen >>
    /\ UNCHANGED << calls, tree >>

\* age = time.time() - playlist.stat().st_mtime; if age < 10: return url
\* (stat raises FileNotFoundError when the playlist was removed meanwhile)
S_Age(t) ==
    /\ pc[t] = "s_age"
    /\ CASE playlist[fid[t]] = "fresh"  -> Finish(t, URL(fid[t]), "fresh")
         [] playlist[fid[t]] = "stale"  -> Goto(t, "s_lock") /\ UNCHANGED << res, how >>
         [] playlist[fid[t]] = "absent" -> Finish(t, "FileNotFoundError", "staterror")
    /\ UNCHANGED << scanVars, exists, PROCS, PROCS_LOCK, procs, nprocs, dir, playlist,
                    op, fid, proc, stopSeen >>
    /\ UNCHANGED << calls, tree >>

\* S_Lock without the check for an encoder that is already running
S_LockNoPoll(t) ==
    /\ pc[t] = "s_lock"
    /\ PROCS_LOCK = 0
    /\ PROCS_LOCK' = t
    /\ Goto(t, "s_clean")
    /\ proc' = [proc EXCEPT ![t] = PROCS[fid[t]]]
    /\ UNCHANGED << scanVars, exists, PROCS, procs, nprocs, dir, playlist,
                    op, fid, res, how, stopSeen >>
    /\ UNCHANGED << calls, tree >>

\* with PROCS_LOCK: proc = PROCS.get(file_id)
\*                  if proc and proc.poll() is None: return url
S_Lock(t) ==
    /\ pc[t] = "s_lock"
    /\ PROCS_LOCK = 0
    /\ IF Live(PROCS[fid[t]])
         THEN /\ Finish(t, URL(fid[t]), "running")
              /\ UNCHANGED PROCS_LOCK
         ELSE /\ PROCS_LOCK' = t
              /\ Goto(t, "s_clean")
              /\ UNCHANGED << res, how >>
    /\ proc' = [proc EXCEPT ![t] = PROCS[fid[t]]]
    /\ UNCHANGED << scanVars, exists, PROCS, procs, nprocs, dir, playlist,
                    op, fid, stopSeen >>
    /\ UNCHANGED << calls, tree >>

\* for child in out_dir.glob("*"): child.unlink()
S_Clean(t) ==
    /\ pc[t] = "s_clean"
    /\ playlist' = [playlist EXCEPT ![fid[t]] = "absent"]
    /\ Goto(t, "s_popen")
    /\ UNCHANGED << scanVars, exists, PROCS, PROCS_LOCK, procs, nprocs, dir,
                    op, fid, res, how, proc, stopSeen >>
    /\ UNCHANGED << calls, tree >>

\* p = subprocess.Popen(cmd, ...)   /   except Exception: raise
S_Popen(t) ==
    /\ pc[t] = "s_popen"
    /\ \/ /\ nprocs < MaxProcs
          /\ nprocs' = nprocs + 1
          /\ procs' = [procs EXCEPT ![nprocs + 1] = [id |-> fid[t], st |-> "running"]]
          /\ proc' = [proc EXCEPT ![t] = nprocs + 1]
          /\ Goto(t, "s_record")
          /\ UNCHANGED << PROCS_LOCK, res, how >>
       \/ /\ PROCS_LOCK' = 0
          /\ Finish(t, "EncoderLaunchFailure", "launchfail")
          /\ UNCHANGED << procs, nprocs, proc >>
    /\ UNCHANGED << scanVars, exists, PROCS, dir, playlist, op, fid, stopSeen >>
    /\ UNCHANGED << calls, tree >>

\* PROCS[file_id] = p ; (lock released) ; return url
S_Record(t) ==
    /\ pc[t] = "s_record"
    /\ PROCS' = [PROCS EXCEPT ![fid[t]] = proc[t]]
    /\ PROCS_LOCK' = 0
    /\ Finish(t, URL(fid[t]), "launched")
    /\ UNCHANGED << scanVars, exists, procs, nprocs, dir, playlist, op, fid, proc, stopSeen >>
    /\ UNCHANGED << calls, tree >>

(***************************************************************************)
(* POST /api/stream/{file_id}/stop : stop_stream                           *)
(***************************************************************************)
StopCall(t, i) ==
    /\ Accepts(t)
    /\ Goto(t, "t_lock")
    /\ op' = [op EXCEPT ![t] = "stop"]
    /\ fid' = [fid EXCEPT ![t] = i]
    /\ res' = [res EXCEPT ![t] = "none"]
    /\ how' = [how EXCEPT ![t] = "none"]
    /\ proc' = [proc EXCEPT ![t] = 0]
    /\ stopSeen' = [stopSeen EXCEPT ![i] = TRUE]
    /\ UNCHANGED << scanVars, exists, PROCS, PROCS_LOCK, procs, nprocs, dir, playlist >>
    /\ calls' = calls + 1
    /\ UNCHANGED tree

\* with PROCS_LOCK: proc = PROCS.get(file_id)
\*                  if proc and proc.poll() is None: proc.terminate()
T_Lock(t) ==
    /\ pc[t] = "t_lock"
    /\ PROCS_LOCK = 0
    /\ PROCS_LOCK' = t
    /\ proc' = [proc EXCEPT ![t] = PROCS[fid[t]]]
    /\ IF Live(PROCS[fid[t]])
         THEN /\ procs' = [procs EXCEPT ![PROCS[fid[t]]].st = "termed"]
              /\ how' = [how EXCEPT ![t] = "terminate"]
              /\ Goto(t, "t_wait")
         ELSE /\ how' = [how EXCEPT ![t] = IF PROCS[fid[t]] = 0 THEN "absent" ELSE "dead"]
              /\ Goto(t, "t_pop")
              /\ UNCHANGED procs
    /\ UNCHANGED << scanVars, exists, PROCS, nprocs, dir, playlist, op, fid, res, stopSeen >>
    /\ UNCHANGED << calls, tree >>

\* try: proc.wait(timeout=3); terminated = True
\* except Exception: proc.kill(); terminated = True
T_Wait(t) ==
    /\ pc[t] = "t_wait"
    /\ IF Live(proc[t])
         THEN /\ procs' = [procs EXCEPT ![proc[t]].st = "killed"]
              /\ how' = [how EXCEPT ![t] = "killed"]
         ELSE /\ how' = [how EXCEPT ![t] = "terminated"]
              /\ UNCHANGED procs
    /\ Goto(t, "t_pop")
    /\ UNCHANGED << scanVars, exists, PROCS, PROCS_LOCK, nprocs, dir, playlist,
                    op, fid, res, proc, stopSeen >>
    /\ UNCHANGED << calls, tree >>

\* T_Pop that releases the lock but forgets to remove the entry
T_PopKeeps(t) ==
    /\ pc[t] = "t_pop"
    /\ PROCS_LOCK' = 0
    /\ Goto(t, "t_exists")
    /\ UNCHANGED << scanVars, exists, PROCS, procs, nprocs, dir, playlist,
                    op, fid, res, how, proc, stopSeen >>
    /\ UNCHANGED << calls, tree >>

\* PROCS.pop(file_id, None) ; (lock released)
T_Pop(t) ==
    /\ pc[t] = "t_pop"
    /\ PROCS' = [PROCS EXCEPT ![fid[t]] = 0]
    /\ PROCS_LOCK' = 0
    /\ Goto(t, "t_exists")
    /\ UNCHANGED << scanVars, exists, procs, nprocs, dir, playlist,
                    op, fid, res, how, proc, stopSeen >>
    /\ UNCHANGED << calls, tree >>

\* if out_dir.exists(): shutil.rmtree(...)   else: return {"stopped": True}
T_Exists(t) ==
    /\ pc[t] = "t_exists"
    /\ IF dir[fid[t]]
         THEN Goto(t, "t_unlink") /\ UNCHANGED << res, how >>
         ELSE Finish(t, "stopped", how[t])
    /\ UNCHANGED << scanVars, exists, PROCS, PROCS_LOCK, procs, nprocs, dir, playlist,
                    op, fid, proc, stopSeen >>
    /\ UNCHANGED << calls, tree >>

\* shutil.rmtree(out_dir, ignore_errors=True), first half: unlink every entry
T_Unlink(t) ==
    /\ pc[t] = "t_unlink"
    /\ playlist' = [playlist EXCEPT ![fid[t]] = "absent"]
    /\ Goto(t, "t_rmdir")
    /\ UNCHANGED << scanVars, exists, PROCS, PROCS_LOCK, procs, nprocs, dir,
                    op, fid, res, how, proc, stopSeen >>
    /\ UNCHANGED << calls, tree >>

\* shutil.rmtree, second half: os.rmdir(out_dir), which fails on a directory
\* that is no longer empty (error ignored) ; return {"stopped": True}
T_Rmdir(t) ==
    /\ pc[t] = "t_rmdir"
    /\ dir' = [dir EXCEPT ![fid[t]] = dir[fid[t]] /\ playlist[fid[t]] # "absent"]
    /\ Finish(t, "stopped", how[t])
    /\ UNCHANGED << scanVars, exists, PROCS, PROCS_LOCK, procs, nprocs, playlist,
                    op, fid, proc, stopSeen >>
    /\ UNCHANGED << calls, tree >>

(***************************************************************************)
(* Environment of the session manager: the encoder processes, the clock    *)
(* and the media files.                                                    *)
(***************************************************************************)
\* a live ffmpeg (re)writes index.m3u8 in its output directory
EncoderWrite(p) ==
    /\ Live(p)
    /\ dir[procs[p].id]
    /\ playlist[procs[p].id] # "fresh"
    /\ playlist' = [playlist EXCEPT ![procs[p].id] = "fresh"]
    /\ UNCHANGED << scanVars, exists, PROCS, PROCS_LOCK, procs, nprocs, dir,
                    pc, op, fid, res, how, proc, stopSeen >>
    /\ UNCHANGED << calls, tree >>

\* an encoder exits: end of input, error, or a delivered SIGTERM / SIGKILL
ProcExit(p) ==
    /\ Live(p)
    /\ procs' = [procs EXCEPT ![p].st = "dead"]
    /\ UNCHANGED << scanVars, exists, PROCS, PROCS_LOCK, nprocs, dir, playlist,
                    pc, op, fid, res, how, proc, stopSeen >>
    /\ UNCHANGED << calls, tree >>

\* ten seconds pass without a write to the playlist
Age(i) ==
    /\ playlist[i] = "fresh"
    /\ playlist' = [playlist EXCEPT ![i] = "stale"]
    /\ UNCHANGED << scanVars, exists, PROCS, PROCS_LOCK, procs, nprocs, dir,
                    pc, op, fid, res, how, proc, stopSeen >>
    /\ UNCHANGED << calls, tree >>

\* a media file is deleted from the share
RemoveSource(f) ==
    /\ exists[f]
    /\ exists' = [exists EXCEPT ![f] = FALSE]
    /\ UNCHANGED << scanVars, sessVars >>
    /\ UNCHANGED << calls, tree >>

(***************************************************************************)
(* scan_files, run by _startup and by POST /api/rescan                     *)
(***************************************************************************)
ClearLocals(t) ==
    /\ it' = [it EXCEPT ![t] = 0]
    /\ cnt' = [cnt EXCEPT ![t] = ZeroCounters]
    /\ found' = [found EXCEPT ![t] = << >>]
    /\ info' = [info EXCEPT ![t] = None]

\* an exception leaves scan_files: a failed startup ends the process, a failed
\* rescan ends the request
ScanRaise(t, e, h) ==
    /\ Finish(t, e, h)
    /\ phase' = IF op[t] = "startup" THEN "exited" ELSE phase
    /\ ClearLocals(t)

RescanCall(t) ==
    /\ phase = "serving"
    /\ Accepts(t)
    /\ Goto(t, "c_reset")
    /\ op' = [op EXCEPT ![t] = "rescan"]
    /\ res' = [res EXCEPT ![t] = "none"]
    /\ how' = [how EXCEPT ![t] = "none"]
    /\ UNCHANGED << scanVars, exists, sessOnly >>
    /\ calls' = calls + 1
    /\ UNCHANGED tree

\* with SCAN_LOCK: SCAN_STATUS.update({"state": "scanning", ... all counters 0 ...})
C_Reset(t) ==
    /\ pc[t] = "c_reset"
    /\ SCAN_STATUS' = ScanningStatus
    /\ Goto(t, "c_root")
    /\ UNCHANGED << FILES, phase, it, cnt, found, info, pubComplete, exists,
                    sessOnly, op, res, how >>
    /\ UNCHANGED << calls, tree >>

\* C_Root that also empties the index when the root is missing
C_RootClears(t) ==
    /\ pc[t] = "c_root"
    /\ IF exists[MEDIA_ROOT]
         THEN /\ Goto(t, "c_next")
              /\ ClearLocals(t)
              /\ UNCHANGED << FILES, SCAN_STATUS, phase, res, how >>
         ELSE /\ SCAN_STATUS' = [SCAN_STATUS EXCEPT !.state = "error",
                                                    !.last_error = "MEDIA_ROOT does not exist"]
              /\ FILES' = << >>
              /\ ScanRaise(t, "RuntimeError", "rootmissing")
    /\ UNCHANGED << pubComplete, exists, sessOnly, op >>
    /\ UNCHANGED << calls, tree >>

\* if not MEDIA_ROOT.exists(): state = "error"; last_error = ...; raise RuntimeError
\* else: found = {}; the local counters = 0
C_Root(t) ==
    /\ pc[t] = "c_root"
    /\ IF exists[MEDIA_ROOT]
         THEN /\ Goto(t, "c_next")
              /\ ClearLocals(t)
              /\ UNCHANGED << SCAN_STATUS, phase, res, how >>
         ELSE /\ SCAN_STATUS' = [SCAN_STATUS EXCEPT !.state = "error",
                                                    !.last_error = "MEDIA_ROOT does not exist"]
              /\ ScanRaise(t, "RuntimeError", "rootmissing")
    /\ UNCHANGED << FILES, pubComplete, exists, sessOnly, op >>
    /\ UNCHANGED << calls, tree >>

\* the next path rglob yields: the next one of the tree that exists
NextIdx(t) ==
    LET later == { k \in 1..Len(tree) : k > it[t] /\ exists[tree[k]] }
    IN  IF later = {} THEN Len(tree) + 1
        ELSE CHOOSE k \in later : \A j \in later : k <= j

\* for p in MEDIA_ROOT.rglob("*"): scanned_paths += 1; status scanned_paths, last_path
C_Next(t) ==
    /\ pc[t] = "c_next"
    /\ it' = [it EXCEPT ![t] = NextIdx(t)]
    /\ IF NextIdx(t) > Len(tree)
         THEN /\ Goto(t, "c_publish")
              /\ UNCHANGED << cnt, SCAN_STATUS >>
         ELSE /\ Goto(t, "c_isfile")
              /\ cnt' = [cnt EXCEPT ![t].scanned_paths = @ + 1]
              /\ SCAN_STATUS' = [SCAN_STATUS EXCEPT !.scanned_paths = cnt[t].scanned_paths + 1,
                                                    !.last_path = tree[NextIdx(t)]]
    /\ UNCHANGED << FILES, phase, found, info, pubComplete, exists, sessOnly, op, res, how >>
    /\ UNCHANGED << calls, tree >>

\* if not p.is_file(): continue ; file_candidates += 1; status file_candidates
C_IsFile(t) ==
    /\ pc[t] = "c_isfile"
    /\ IF Kind(tree[it[t]]) = "file" /\ exists[tree[it[t]]]
         THEN /\ Goto(t, "c_ext")
              /\ cnt' = [cnt EXCEPT ![t].file_candidates = @ + 1]
              /\ SCAN_STATUS' = [SCAN_STATUS EXCEPT !.file_candidates = cnt[t].file_candidates + 1]
         ELSE /\ Goto(t, "c_next")
              /\ UNCHANGED << cnt, SCAN_STATUS >>
    /\ UNCHANGED << FILES, phase, it, found, info, pubComplete, exists, sessOnly, op, res, how >>
    /\ UNCHANGED << calls, tree >>

\* if p.suffix.lower() not in SCAN_EXTS: continue ; accepted_media += 1; status
C_Ext(t) ==
    /\ pc[t] = "c_ext"
    /\ IF Lower(Suffix(tree[it[t]])) \in SCAN_EXTS
         THEN /\ Goto(t, "c_probe")
              /\ cnt' = [cnt EXCEPT ![t].accepted_media = @ + 1]
              /\ SCAN_STATUS' = [SCAN_STATUS EXCEPT !.accepted_media = cnt[t].accepted_media + 1]
         ELSE /\ Goto(t, "c_next")
              /\ UNCHANGED << cnt, SCAN_STATUS >>
    /\ UNCHANGED << FILES, phase, it, found, info, pubComplete, exists, sessOnly, op, res, how >>
    /\ UNCHANGED << calls, tree >>

\* info = ffprobe_video_info(p); ffprobe_ok += 1; status ffprobe_ok
ProbeOk(t) ==
    /\ info' = [info EXCEPT ![t] = CodecName(tree[it[t]])]
    /\ cnt' = [cnt EXCEPT ![t].ffprobe_ok = @ + 1]
    /\ SCAN_STATUS' = [SCAN_STATUS EXCEPT !.ffprobe_ok = cnt[t].ffprobe_ok + 1]
    /\ Goto(t, "c_record")

\* ProbeFailed that does not count the failure
ProbeFailedUncounted(t) ==
    /\ info' = [info EXCEPT ![t] = "unknown"]
    /\ SCAN_STATUS' = [SCAN_STATUS EXCEPT !.last_error = "ffprobe failed"]
    /\ Goto(t, "c_record")
    /\ UNCHANGED cnt

\* except Exception: ffprobe_failed += 1; info = {"codec": "unknown", ...};
\*                   status ffprobe_failed, last_error
ProbeFailed(t) ==
    /\ info' = [info EXCEPT ![t] = "unknown"]
    /\ cnt' = [cnt EXCEPT ![t].ffprobe_failed = @ + 1]
    /\ SCAN_STATUS' = [SCAN_STATUS EXCEPT !.ffprobe_failed = cnt[t].ffprobe_failed + 1,
                                          !.last_error = "ffprobe failed"]
    /\ Goto(t, "c_record")

\* file_id = stable_id_for_path(p)  (p.stat() raises when the file is gone),
\* then the probe in its try/except
C_Probe(t) ==
    /\ pc[t] = "c_probe"
    /\ IF exists[tree[it[t]]]
         THEN /\ (ProbeOk(t) \/ (ProbeCanFail(tree[it[t]]) /\ ProbeFailed(t)))
              /\ UNCHANGED << phase, it, found, res, how >>
         ELSE /\ ScanRaise(t, "FileNotFoundError", "statfailed")
              /\ UNCHANGED SCAN_STATUS
    /\ UNCHANGED << FILES, pubComplete, exists, sessOnly, op >>
    /\ UNCHANGED << calls, tree >>

\* C_Record that also publishes the accumulation so far as the index
C_RecordPublishes(t) ==
    /\ pc[t] = "c_record"
    /\ found' = [found EXCEPT ![t] = DictSet(@, Record(tree[it[t]], info[t]))]
    /\ FILES' = SortIndex(found'[t])
    /\ pubComplete' = (it[t] > Len(tree))
    /\ cnt' = [cnt EXCEPT ![t].indexed = @ + 1]
    /\ SCAN_STATUS' = [SCAN_STATUS EXCEPT !.indexed = cnt[t].indexed + 1]
    /\ info' = [info EXCEPT ![t] = None]
    /\ Goto(t, "c_next")
    /\ UNCHANGED << phase, it, exists, sessOnly, op, res, how >>
    /\ UNCHANGED << calls, tree >>

\* found[file_id] = record; indexed += 1; status indexed
C_Record(t) ==
    /\ pc[t] = "c_record"
    /\ found' = [found EXCEPT ![t] = DictSet(@, Record(tree[it[t]], info[t]))]
    /\ cnt' = [cnt EXCEPT ![t].indexed = @ + 1]
    /\ SCAN_STATUS' = [SCAN_STATUS EXCEPT !.indexed = cnt[t].indexed + 1]
    /\ info' = [info EXCEPT ![t] = None]
    /\ Goto(t, "c_next")
    /\ UNCHANGED << FILES, phase, it, pubComplete, exists, sessOnly, op, res, how >>
    /\ UNCHANGED << calls, tree >>

\* FILES = dict(sorted(found.items(), key=...))
C_Publish(t) ==
    /\ pc[t] = "c_publish"
    /\ FILES' = SortIndex(found[t])
    /\ pubComplete' = (it[t] > Len(tree))
    /\ Goto(t, "c_done")
    /\ UNCHANGED << SCAN_STATUS, phase, it, cnt, found, info, exists, sessOnly, op, res, how >>
    /\ UNCHANGED << calls, tree >>

\* C_Done that puts the status back to idle
C_DoneIdles(t) ==
    /\ pc[t] = "c_done"
    /\ SCAN_STATUS' = [SCAN_STATUS EXCEPT !.state = "idle",
                                          !.codec_counts = CodecCounts(FILES)]
    /\ Goto(t, "c_ret")
    /\ ClearLocals(t)
    /\ UNCHANGED << FILES, phase, pubComplete, exists, sessOnly, op, res, how >>
    /\ UNCHANGED << calls, tree >>

\* codec_counts over FILES.values(); with SCAN_LOCK: state = "done"; codec_counts
C_Done(t) ==
    /\ pc[t] = "c_done"
    /\ SCAN_STATUS' = [SCAN_STATUS EXCEPT !.state = "done",
                                          !.codec_counts = CodecCounts(FILES)]
    /\ Goto(t, "c_ret")
    /\ ClearLocals(t)
    /\ UNCHANGED << FILES, phase, pubComplete, exists, sessOnly, op, res, how >>
    /\ UNCHANGED << calls, tree >>

\* _startup: the service starts serving ; rescan: return {"count": len(FILES)}
C_Ret(t) ==
    /\ pc[t] = "c_ret"
    /\ Finish(t, Len(FILES), "scanned")
    /\ phase' = "serving"
    /\ UNCHANGED << FILES, SCAN_STATUS, it, cnt, found, info, pubComplete, exists,
                    sessOnly, op >>
    /\ UNCHANGED << calls, tree >>

\* GET /api/files : return list(FILES.values())
ListFiles(t) ==
    /\ phase = "serving"
    /\ Accepts(t)
    /\ op' = [op EXCEPT ![t] = "list"]
    /\ res' = [res EXCEPT ![t] = FILES]
    /\ how' = [how EXCEPT ![t] = IF pubComplete THEN "snapshot" ELSE "partial"]
    /\ UNCHANGED << scanVars, exists, sessOnly, pc >>
    /\ calls' = calls + 1
    /\ UNCHANGED tree

\* the share is unmounted / mounted again
RootToggle ==
    /\ exists' = [exists EXCEPT ![MEDIA_ROOT] = ~@]
    /\ UNCHANGED << scanVars, sessVars >>
    /\ UNCHANGED << calls, tree >>

(***************************************************************************)
(* Initial states and specifications.                                      *)
(***************************************************************************)
InitSession ==
    /\ PROCS = [i \in ReqIds |-> 0]
    /\ PROCS_LOCK = 0
    /\ procs = [p \in Pids |-> NoProc]
    /\ nprocs = 0
    /\ dir = [i \in ReqIds |-> FALSE]
    /\ playlist = [i \in ReqIds |-> "absent"]
    /\ fid = [t \in Threads |-> ""]
    /\ res = [t \in Threads |-> "none"]
    /\ how = [t \in Threads |-> "none"]
    /\ proc = [t \in Threads |-> 0]
    /\ stopSeen = [i \in ReqIds |-> FALSE]
    /\ exists = [f \in AllPaths \cup { MEDIA_ROOT } |-> TRUE]
    /\ it = [t \in Threads |-> 0]
    /\ cnt = [t \in Threads |-> ZeroCounters]
    /\ found = [t \in Threads |-> << >>]
    /\ info = [t \in Threads |-> None]
    /\ pubComplete = TRUE
    /\ calls = 0

\* the module has been imported; the startup scan is about to run
InitScan ==
    /\ InitSession
    /\ tree = Walk
    /\ FILES = << >>
    /\ SCAN_STATUS = IdleStatus
    /\ phase = "startup"
    /\ pc = [t \in Threads |-> IF t = 1 THEN "c_reset" ELSE "idle"]
    /\ op = [t \in Threads |-> IF t = 1 THEN "startup" ELSE "none"]

\* what the startup scan leaves when every probe succeeds
StartupIndex ==
    SortIndex(<< Record("/media/Movie.MP4", CodecName("/media/Movie.MP4")),
                 Record("/media/tv/clip.mkv", CodecName("/media/tv/clip.mkv")) >>)

StartupStatus ==
    [state |-> "done", scanned_paths |-> Len(Walk), file_candidates |-> Len(Walk) - 1,
     accepted_media |-> Len(StartupIndex), indexed |-> Len(StartupIndex),
     ffprobe_ok |-> Len(StartupIndex), ffprobe_failed |-> 0,
     last_path |-> Walk[Len(Walk)], last_error |-> None,
     codec_counts |-> CodecCounts(StartupIndex)]

\* the service after _startup has completed
Init ==
    /\ InitSession
    /\ tree = Walk
    /\ FILES = StartupIndex
    /\ SCAN_STATUS = StartupStatus
    /\ phase = "serving"
    /\ pc = [t \in Threads |-> "idle"]
    /\ op = [t \in Threads |-> "none"]

\* the session manager and its environment
Next ==
    \/ \E t \in Threads, i \in ReqIds : StartCall(t, i)
    \/ \E t \in Threads : S_Lookup(t)
    \/ \E t \in Threads : S_Src(t)
    \/ \E t \in Threads : S_Mkdir(t)
    \/ \E t \in Threads : S_Exists(t)
    \/ \E t \in Threads : S_Age(t)
    \/ \E t \in Threads : S_Lock(t)
    \/ \E t \in Threads : S_Clean(t)
    \/ \E t \in Threads : S_Popen(t)
    \/ \E t \in Threads : S_Record(t)
    \/ \E t \in Threads, i \in ReqIds : StopCall(t, i)
    \/ \E t \in Threads : T_Lock(t)
    \/ \E t \in Threads : T_Wait(t)
    \/ \E t \in Threads : T_Pop(t)
    \/ \E t \in Threads : T_Exists(t)
    \/ \E t \in Threads : T_Unlink(t)
    \/ \E t \in Threads : T_Rmdir(t)
    \/ \E p \in Pids : EncoderWrite(p)
    \/ \E p \in Pids : ProcExit(p)
    \/ \E i \in ReqIds : Age(i)
    \/ \E f \in Removable : RemoveSource(f)

Spec == Init /\ [][Next]_vars

\* the scanner, the readers of the index and their environment
NextScan ==
    \/ \E t \in Threads : RescanCall(t)
    \/ \E t \in Threads : C_Reset(t)
    \/ \E t \in Threads : C_Root(t)
    \/ \E t \in Threads : C_Next(t)
    \/ \E t \in Threads : C_IsFile(t)
    \/ \E t \in Threads : C_Ext(t)
    \/ \E t \in Threads : C_Probe(t)
    \/ \E t \in Threads : C_Record(t)
    \/ \E t \in Threads : C_Publish(t)
    \/ \E t \in Threads : C_Done(t)
    \/ \E t \in Threads : C_Ret(t)
    \/ \E t \in Threads : ListFiles(t)
    \/ \E f \in Removable : RemoveSource(f)
    \/ RootToggle

ScanSpec == InitScan /\ [][NextScan]_vars

\* the startup scan over any tree
InitIndex ==
    /\ InitSession
    /\ tree \in Trees
    /\ FILES = << >>
    /\ SCAN_STATUS = IdleStatus
    /\ phase = "startup"
    /\ pc = [t \in Threads |-> IF t = 1 THEN "c_reset" ELSE "idle"]
    /\ op = [t \in Threads |-> IF t = 1 THEN "startup" ELSE "none"]

\* one scan running alone
NextIndex ==
    \/ \E t \in Threads : C_Reset(t)
    \/ \E t \in Threads : C_Root(t)
    \/ \E t \in Threads : C_Next(t)
    \/ \E t \in Threads : C_IsFile(t)
    \/ \E t \in Threads : C_Ext(t)
    \/ \E t \in Threads : C_Probe(t)
    \/ \E t \in Threads : C_Record(t)
    \/ \E t \in Threads : C_Publish(t)
    \/ \E t \in Threads : C_Done(t)
    \/ \E t \in Threads : C_Ret(t)

IndexSpec == InitIndex /\ [][NextIndex]_vars

(***************************************************************************)
(* Properties of the session manager (checked under Spec).                 *)
(***************************************************************************)
LiveOf(i) == { p \in Pids : Live(p) /\ procs[p].id = i }

SpawnedFor(i) == { p \in Pids : procs[p].id = i }

\* thread t has returned from (or failed in) a call of handler o
Returned(t, o) == pc[t] = "idle" /\ op[t] = o /\ how[t] # "none"

\* thread t takes a step of the call it is running
Steps(t) == pc[t] # "idle" /\ pc'[t] # pc[t]

\* C1: in every reachable state at most one encoder process is alive per
\* identifier, counting every process ever spawned, tracked in PROCS or not.
C1_OneLiveEncoderPerId == \A i \in ReqIds : Cardinality(LiveOf(i)) <= 1

\* no stop_stream for i has begun and no encoder of i has exited
Undisturbed(i) == ~stopSeen[i] /\ \A p \in SpawnedFor(i) : procs[p].st # "dead"

\* no call for identifier i is running
Settled(i) == \A t \in Threads : pc[t] = "idle" \/ fid[t] # i

\* C2 (as claimed): from the initial state, with no stop and no encoder death,
\* once the start calls for an indexed identifier have all returned, exactly
\* one spawn has happened in total, one process is tracked and every call has
\* returned the stream URL.
C2_EveryStartConverges ==
    \A t \in Threads :
        (Returned(t, "start") /\ InIndex(FILES, fid[t])
           /\ Undisturbed(fid[t]) /\ Settled(fid[t]))
            => /\ Cardinality(SpawnedFor(fid[t])) = 1
               /\ PROCS[fid[t]] # 0
               /\ res[t] = URL(fid[t])

\* C2 (amended): with no stop and no encoder death, at most one encoder is ever
\* spawned for an identifier; once the start calls for it have all returned,
\* every call that did not fail with SourceMissing or EncoderLaunchFailure has
\* returned the stream URL, exactly one spawn has happened in total and that
\* process is tracked and alive.
C2_SuccessfulStartsConverge ==
    \A i \in ReqIds :
        Undisturbed(i) =>
            /\ Cardinality(SpawnedFor(i)) <= 1
            /\ \A t \in Threads :
                 (Returned(t, "start") /\ fid[t] = i /\ InIndex(FILES, i) /\ Settled(i)
                    /\ how[t] \notin { "missing", "launchfail" })
                   => /\ Cardinality(SpawnedFor(i)) = 1
                      /\ Live(PROCS[i])
                      /\ res[t] = URL(i)

\* two start calls for the same identifier have returned the same URL, one by
\* launching the encoder and one by finding it running
C2_Witness ==
    \E t, u \in Threads :
        /\ Returned(t, "start") /\ Returned(u, "start") /\ fid[t] = fid[u]
        /\ how[t] = "launched" /\ how[u] = "running"
        /\ res[t] = res[u]
        /\ Undisturbed(fid[t])

\* C3: when stop_stream(id) returns, the output directory of id does not exist.
C3_DirGoneWhenStopReturns ==
    [][\A t \in Threads :
         (op[t] = "stop" /\ Steps(t) /\ pc'[t] = "idle") => ~dir'[fid[t]]]_vars

\* C4: no tracked, running encoder has lost its output directory to a stop, and
\* no running encoder that was never signalled is missing from the table once
\* its launcher has recorded it.
C4_NoStopLaunchRace ==
    /\ \A i \in ReqIds : Live(PROCS[i]) => dir[i]
    /\ \A p \in Pids :
         procs[p].st = "running"
            => \/ PROCS[procs[p].id] = p
               \/ \E t \in Threads : pc[t] = "s_record" /\ proc[t] = p

\* C5: a start call whose Popen fails raises the failure and leaves PROCS
\* without an entry for the identifier.
C5_LaunchFailureLeavesNoEntry ==
    [][\A t \in Threads :
         (pc[t] = "s_popen" /\ pc'[t] = "idle")
            => (res'[t] = "EncoderLaunchFailure" /\ PROCS'[fid[t]] = 0)]_vars

\* the call of t is a stop that found no entry, or an entry whose process had
\* exited
NoActiveSession(t) == op[t] = "stop" /\ how'[t] \in { "absent", "dead" }

\* C6 (as claimed): a stop that finds no entry or a dead entry succeeds and
\* never changes PROCS.
C6_StopWithoutSessionKeepsTable ==
    [][\A t \in Threads :
         (Steps(t) /\ NoActiveSession(t))
            => /\ PROCS' = PROCS
               /\ (pc'[t] = "idle" => res'[t] = "stopped")]_vars

\* C6 (amended): a stop that finds no entry succeeds and leaves PROCS
\* unchanged; a stop that finds an entry whose process has exited succeeds,
\* signals nothing and removes that entry only.
C6_StopWithoutSessionDropsDeadEntry ==
    [][\A t \in Threads :
         (Steps(t) /\ NoActiveSession(t))
            => /\ PROCS' = IF pc[t] = "t_pop" /\ how[t] = "dead"
                             THEN [PROCS EXCEPT ![fid[t]] = 0]
                             ELSE PROCS
               /\ (pc[t] = "t_pop" /\ how[t] = "dead" => PROCS[fid[t]] # 0)
               /\ procs' = procs
               /\ (pc'[t] = "idle" => res'[t] = "stopped")]_vars

\* a stop has returned after dropping the entry of an encoder that had exited
C6_Witness ==
    \E t \in Threads :
        /\ Returned(t, "stop") /\ how[t] = "dead" /\ res[t] = "stopped"
        /\ PROCS[fid[t]] = 0
        /\ SpawnedFor(fid[t]) # {}

\* the steps of ensure_hls_running that precede the lock
BeforeLock == { "s_lookup", "s_src", "s_mkdir", "s_exists", "s_age" }

\* C7: a start call that finds the playlist younger than ten seconds returns
\* the stream URL at once; it spawns nothing, does not take the lock or touch
\* PROCS, and deletes no artifact, whatever the state of the tracked encoder.
C7_FreshPlaylistShortCircuits ==
    [][\A t \in Threads :
         /\ (Steps(t) /\ pc[t] \in BeforeLock)
              => UNCHANGED << PROCS, PROCS_LOCK, procs, nprocs, playlist >>
         /\ (Steps(t) /\ pc[t] = "s_age" /\ playlist[fid[t]] = "fresh")
              => (pc'[t] = "idle" /\ res'[t] = URL(fid[t]) /\ dir' = dir)]_vars

\* a start call has returned through the freshness check although the tracked
\* encoder had exited
C7_Witness ==
    \E t \in Threads :
        /\ Returned(t, "start") /\ how[t] = "fresh" /\ res[t] = URL(fid[t])
        /\ PROCS[fid[t]] # 0 /\ ~Live(PROCS[fid[t]])
        /\ playlist[fid[t]] = "fresh"

\* C8: a start call for an identifier that is not in FILES raises UnknownID,
\* one whose source file is gone raises SourceMissing; neither creates the
\* output directory, spawns an encoder or changes PROCS.
C8_UnknownOrMissingHasNoEffect ==
    [][\A t \in Threads :
         /\ (Steps(t) /\ pc[t] = "s_lookup" /\ ~InIndex(FILES, fid[t]))
              => (pc'[t] = "idle" /\ res'[t] = "UnknownID")
         /\ (Steps(t) /\ pc[t] = "s_src" /\ InIndex(FILES, fid[t])
                /\ ~exists[FILES[PathOf(FILES, fid[t])].path])
              => (pc'[t] = "idle" /\ res'[t] = "SourceMissing")
         /\ (Steps(t) /\ pc[t] \in { "s_lookup", "s_src" })
              => UNCHANGED << dir, playlist, PROCS, PROCS_LOCK, procs, nprocs >>]_vars

\* both failures have happened and no output directory exists
C8_Witness ==
    \E t, u \in Threads :
        /\ Returned(t, "start") /\ res[t] = "UnknownID"
        /\ Returned(u, "start") /\ res[u] = "SourceMissing"
        /\ \A i \in ReqIds : ~dir[i] /\ PROCS[i] = 0
        /\ nprocs = 0

(***************************************************************************)
(* Properties of the scanner (checked under ScanSpec).                     *)
(***************************************************************************)
\* v is in sorted order and holds one record per identifier
IsSnapshot(v) ==
    /\ v = SortIndex(v)
    /\ \A j, k \in 1..Len(v) : v[j].id = v[k].id => j = k

InLoop == { "c_next", "c_isfile", "c_ext", "c_probe", "c_record" }

\* C9: the index is at all times the initial empty one or the complete sorted
\* result of a scan that had ended its traversal, and so is every value
\* list_files has returned, also while scans are running.
C9_ReadersSeeCompleteIndex ==
    /\ pubComplete
    /\ IsSnapshot(FILES)
    /\ \A t \in Threads :
         Returned(t, "list") => (how[t] = "snapshot" /\ IsSnapshot(res[t]))

\* list_files has returned a non-empty index while another thread is inside the
\* scan loop with an accumulation that differs from it
C9_Witness ==
    \E t, u \in Threads :
        /\ Returned(t, "list") /\ res[t] # << >> /\ res[t] = FILES
        /\ pc[u] \in InLoop /\ found[u] # << >>
        /\ SortIndex(found[u]) # FILES

\* C10: the scan that finds the root missing sets state error, records the
\* message, raises and leaves FILES alone; a failed probe leaves the scan in
\* its loop, and the file is then recorded.
C10_RootMissingKeepsIndex ==
    [][\A t \in Threads :
         /\ (Steps(t) /\ pc[t] = "c_root" /\ ~exists[MEDIA_ROOT])
              => /\ pc'[t] = "idle" /\ res'[t] = "RuntimeError"
                 /\ SCAN_STATUS'.state = "error"
                 /\ SCAN_STATUS'.last_error = "MEDIA_ROOT does not exist"
                 /\ FILES' = FILES
         /\ (pc[t] = "c_probe" /\ cnt'[t].ffprobe_failed = cnt[t].ffprobe_failed + 1)
              => (pc'[t] = "c_record" /\ info'[t] = "unknown" /\ FILES' = FILES)
         /\ (Steps(t) /\ pc[t] = "c_record")
              => /\ pc'[t] = "c_next"
                 /\ \E k \in 1..Len(found'[t]) :
                      found'[t][k] = Record(tree[it[t]], info[t])]_vars

\* a rescan has failed on the missing root and the index of an earlier scan,
\* one of whose probes had failed, is still published
C10_Witness ==
    \E t \in Threads :
        /\ Returned(t, "rescan") /\ how[t] = "rootmissing"
        /\ SCAN_STATUS.state = "error"
        /\ SCAN_STATUS.last_error = "MEDIA_ROOT does not exist"
        /\ \E k \in 1..Len(FILES) : FILES[k].codec = "unknown"

(***************************************************************************)
(* Properties of one scan over any tree (checked under IndexSpec).         *)
(***************************************************************************)
\* positions in the tree of the files the scan accepts
Accepted == { k \in 1..Len(tree) :
                Kind(tree[k]) = "file" /\ Lower(Suffix(tree[k])) \in SCAN_EXTS }

\* the accepted positions that yield identifier i
Yielding(i) == { k \in Accepted : StableId(tree[k]) = i }

\* the scan has completed and published its index
Completed == SCAN_STATUS.state = "done"

\* C11: the index of a completed scan has exactly the identifiers of the
\* accepted files, one record each; the record of an identifier is that of the
\* last accepted file yielding it; a file whose probe failed is indexed with
\* codec "unknown".
C11_IndexHoldsEveryAcceptedFile ==
    Completed =>
        /\ { FILES[j].id : j \in 1..Len(FILES) } = { StableId(tree[k]) : k \in Accepted }
        /\ \A j, k \in 1..Len(FILES) : FILES[j].id = FILES[k].id => j = k
        /\ \A j \in 1..Len(FILES) :
             /\ \E k \in Yielding(FILES[j].id) :
                  /\ \A m \in Yielding(FILES[j].id) : m <= k
                  /\ FILES[j].path = tree[k] /\ FILES[j].name = Name(tree[k])
             /\ FILES[j].codec \in { CodecName(FILES[j].path), "unknown" }
             /\ FILES[j].codec = "unknown" => ProbeCanFail(FILES[j].path)
        /\ Cardinality({ j \in 1..Len(FILES) : FILES[j].codec = "unknown" })
             = SCAN_STATUS.ffprobe_failed

\* a completed scan of a tree in which two accepted files yield one identifier
\* and the probe of a third failed
C11_Witness ==
    /\ Completed
    /\ \E k, m \in Accepted : k < m /\ StableId(tree[k]) = StableId(tree[m])
    /\ \E j \in 1..Len(FILES) : FILES[j].codec = "unknown"
    /\ Len(FILES) = 2

\* the position in the tree at which identifier i was first discovered
FirstSeen(i) == CHOOSE k \in Yielding(i) : \A m \in Yielding(i) : k <= m

StateChanges == SCAN_STATUS'.state # SCAN_STATUS.state

Counters == { "scanned_paths", "file_candidates", "accepted_media",
              "ffprobe_ok", "ffprobe_failed", "indexed" }

\* thread t runs a scan that has reset the status and not yet set its terminal
\* state
InScan(t) == pc[t] \in { "c_root", "c_done" } \cup InLoop \cup { "c_publish" }

\* C14: while a scan is between its reset and its terminal state, no step
\* lowers a counter of the scan status.
C14_CountersNeverDecrease ==
    [][\A t \in Threads :
         InScan(t) => \A c \in Counters : SCAN_STATUS'[c] >= SCAN_STATUS[c]]_vars

(***************************************************************************)
(* Further properties of the session manager (checked under Spec).         *)
(***************************************************************************)
\* C15: every stop_stream call returns {"stopped": True}; when it returns, the
\* process it found tracked for the identifier is not running and is no longer
\* the entry of the identifier.
C15_StopLeavesProcessDead ==
    [][\A t \in Threads :
         (op[t] = "stop" /\ Steps(t) /\ pc'[t] = "idle")
            => /\ res'[t] = "stopped"
               /\ proc[t] # 0
                    => /\ procs'[proc[t]].st \notin LiveStates
                       /\ PROCS'[fid[t]] # proc[t]]_vars

\* C16: a start call deletes the artifacts, spawns the encoder and records the
\* handle in this order while holding PROCS_LOCK throughout, and at the moment
\* of the spawn the output directory holds no playlist.
C16_CleanBeforeSpawn ==
    [][\A t \in Threads :
         /\ (pc[t] = "s_clean" /\ Steps(t))
              => (PROCS_LOCK = t /\ PROCS_LOCK' = t /\ pc'[t] = "s_popen")
         /\ (pc[t] = "s_popen" /\ pc'[t] = "s_record")
              => (PROCS_LOCK = t /\ PROCS_LOCK' = t /\ playlist[fid[t]] = "absent")
         /\ (pc[t] = "s_record" /\ Steps(t))
              => (PROCS_LOCK = t /\ PROCS'[fid[t]] = proc[t])]_vars

\* C17: while a stop_stream call waits for the encoder of its identifier to
\* exit, a call for another identifier that has reached its critical section
\* can enter it.
C17_OtherIdsNotBlockedByWait ==
    \A t, u \in Threads :
        (pc[t] = "t_wait" /\ pc[u] \in { "s_lock", "t_lock" } /\ fid[u] # fid[t])
            => ENABLED (S_Lock(u) \/ T_Lock(u))

(***************************************************************************)
(* Further properties of the scan status (checked under ScanSpec).         *)
(***************************************************************************)
RECURSIVE SumCounts(_)
SumCounts(h) == IF h = << >> THEN 0 ELSE Head(h)[2] + SumCounts(Tail(h))

\* C18: while the state is scanning the codec histogram is empty; while it is
\* done the histogram counts the records of the index readers observe: each
\* entry is the number of records of that codec (no codec name counted as
\* "unknown") and the counts add up to the size of the index.
C18_HistogramMatchesIndex ==
    /\ SCAN_STATUS.state = "scanning" => SCAN_STATUS.codec_counts = << >>
    /\ SCAN_STATUS.state = "done"
         => /\ SumCounts(SCAN_STATUS.codec_counts) = Len(FILES)
            /\ \A k \in 1..Len(SCAN_STATUS.codec_counts) :
                 SCAN_STATUS.codec_counts[k][2]
                   = Cardinality({ j \in 1..Len(FILES) :
                                     HistKey(FILES[j]) = SCAN_STATUS.codec_counts[k][1] })

\* C19: when a scan call returns or fails while no other scan is running and
\* the service goes on running, the state it leaves is not scanning.
C19_ScanEndsDoneOrError ==
    [][\A t \in Threads :
         (/\ pc[t] \in { "c_root", "c_probe", "c_ret" } /\ pc'[t] = "idle"
          /\ \A u \in Threads \ { t } : pc[u] = "idle"
          /\ phase' = "serving")
            => SCAN_STATUS'.state \in { "done", "error" }]_vars

(***************************************************************************)
(* The counters of one scan running alone (checked under IndexSpec).       *)
(***************************************************************************)
\* no two accepted files of the tree yield the same identifier
NoCollision ==
    \A k, m \in Accepted : StableId(tree[k]) = StableId(tree[m]) => k = m

\* C20: in every status snapshot of a scan running alone, indexed <= ffprobe_ok
\* + ffprobe_failed <= accepted_media <= file_candidates <= scanned_paths; with
\* state done, accepted_media = ffprobe_ok + ffprobe_failed = indexed, and the
\* published index has at most indexed records, exactly indexed when no two
\* accepted files share an identifier.
C20_CountersOrdered ==
    LET S == SCAN_STATUS
    IN  /\ S.indexed <= S.ffprobe_ok + S.ffprobe_failed
        /\ S.ffprobe_ok + S.ffprobe_failed <= S.accepted_media
        /\ S.accepted_media <= S.file_candidates
        /\ S.file_candidates <= S.scanned_paths
        /\ S.state = "done"
             => /\ S.accepted_media = S.ffprobe_ok + S.ffprobe_failed
                /\ S.accepted_media = S.indexed
                /\ Len(FILES) <= S.indexed
                /\ NoCollision => Len(FILES) = S.indexed

\* a completed scan of four paths in which a probe failed and two accepted
\* files shared an identifier, so that the index is smaller than indexed
C20_Witness ==
    /\ Completed
    /\ SCAN_STATUS.scanned_paths = 4
    /\ SCAN_STATUS.ffprobe_failed = 1
    /\ Len(FILES) < SCAN_STATUS.indexed

====
